---- MODULE Spec2Model ----
(***************************************************************************)
(* Query routing and context management of the AgriAI backend:             *)
(*   - IntentClassifierAgent.process   (agents/intent_classifier.py)       *)
(*   - AgentOrchestrator.process_query and its helpers                     *)
(*                                       (agents/orchestrator.py)          *)
(*   - BaseAgent.save_memory_context   (agents/base.py)                    *)
(* over a Redis-like key/value store with per-key TTL.                     *)
(*                                                                         *)
(* Conventions.  A text is a sequence of words (tokens); str.lower() maps  *)
(* every word to its lower-case form.  Confidences and rule weights are    *)
(* kept in tenths (0.8 is 8, 1.0 is 10): a score is either one weight      *)
(* added to 0.0 or a sum of at least two weights, which always exceeds     *)
(* 1.0 and is capped, so the tenths are exact.  A JSON value is a tagged   *)
(* record ([t |-> "str", s |-> ..], [t |-> "null"], [t |-> "list", ..]);   *)
(* a dict is a function from a finite set of key strings to JSON values.   *)
(***************************************************************************)
EXTENDS Integers, Sequences, FiniteSets, TLC

VARIABLES
    cl,         \* stand-alone calls of IntentClassifierAgent.process
    store,      \* the Redis keyspace: key -> entry (value and TTL)
    rq,         \* the process_query calls in flight, one per slot
    turns,      \* history: query and reply text of the calls that returned
    calls       \* history: number of process_query calls started

vars == <<cl, store, rq, turns, calls>>
orch_vars == <<store, rq, turns, calls>>

----------------------------------------------------------------------------
(* Bounds of the model *)

\* longest query (in words) handed to the stand-alone classifier
MaxQueryLen == 3

\* how often the stand-alone classifier is called on the same query
MaxClassifyCalls == 2

\* process_query calls per run, failures and caller contexts included
MaxCalls == 2

\* process_query calls per run of the failure-free sequential scenario
MaxSeqCalls == 11

\* process_query calls per run of the scenario with a query for every intent
MaxIntentCalls == 1

\* process_query calls per run of the scenarios with two calls in flight
MaxRaceCalls == 2

----------------------------------------------------------------------------
(* Words and str.lower() *)

\* the words the stand-alone classifier is exercised with
Vocabulary ==
    {"which", "crop", "Crop", "soil", "temperature", "fertilizer", "MSP", "hello"}

\* str.lower() on one word
LowerWord(w) ==
    CASE w = "Crop" -> "crop"
      [] w = "MSP" -> "msp"
      [] w = "Punjab" -> "punjab"
      [] w = "Punjabi" -> "punjabi"
      [] w = "Wheat" -> "wheat"
      [] OTHER -> w

\* str.lower() on a text
Lower(text) == [i \in 1..Len(text) |-> LowerWord(text[i])]

----------------------------------------------------------------------------
(* IntentClassifierAgent *)

\* registration (dict insertion) order of intent_patterns
IntentOrder ==
    <<"crop_advisory", "soil_analysis", "weather", "irrigation",
      "pest_disease", "market_intelligence", "financial", "policy">>

\* one rule: r"\b(alt|alt|...)\b" with its weight; an alternative is a phrase
Rule(alts, weight) == [alts |-> alts, weight |-> weight]

\* self.intent_patterns; alternatives are spelled as in the source (re.search
\* is case-sensitive, so "pH", "NPK", "EMI", "PM-Kisan", "KCC" and "MSP" are
\* kept in upper case)
intent_patterns ==
    [i \in {IntentOrder[k] : k \in 1..Len(IntentOrder)} |->
      CASE i = "crop_advisory" -> <<
             Rule({<<"crop">>, <<"plant">>, <<"seed">>, <<"variety">>,
                   <<"sowing">>, <<"harvest">>}, 8),
             Rule({<<"which", "crop">>, <<"what", "to", "grow">>,
                   <<"best", "crop">>, <<"recommend", "crop">>}, 9),
             Rule({<<"season">>, <<"timing">>, <<"when", "to", "plant">>}, 7) >>
        [] i = "soil_analysis" -> <<
             Rule({<<"soil">>, <<"pH">>, <<"nitrogen">>, <<"phosphorus">>,
                   <<"potassium">>, <<"NPK">>, <<"nutrients">>}, 8),
             Rule({<<"soil", "test">>, <<"soil", "health">>,
                   <<"soil", "quality">>}, 9),
             Rule({<<"fertilizer">>, <<"manure">>, <<"compost">>}, 6) >>
        [] i = "weather" -> <<
             Rule({<<"weather">>, <<"rain">>, <<"temperature">>,
                   <<"humidity">>, <<"wind">>}, 8),
             Rule({<<"forecast">>, <<"climate">>, <<"monsoon">>,
                   <<"drought">>}, 7),
             Rule({<<"will", "it", "rain">>, <<"weather", "today">>,
                   <<"temperature">>}, 9) >>
        [] i = "irrigation" -> <<
             Rule({<<"water">>, <<"irrigation">>, <<"watering">>,
                   <<"moisture">>}, 8),
             Rule({<<"drip">>, <<"sprinkler">>, <<"flood", "irrigation">>}, 9),
             Rule({<<"when", "to", "water">>, <<"how", "much", "water">>}, 8) >>
        [] i = "pest_disease" -> <<
             Rule({<<"pest">>, <<"disease">>, <<"insect">>, <<"fungus">>,
                   <<"virus">>, <<"bacteria">>}, 8),
             Rule({<<"leaf", "spot">>, <<"blight">>, <<"aphid">>,
                   <<"caterpillar">>}, 9),
             Rule({<<"plant", "sick">>, <<"leaves", "turning">>,
                   <<"crop", "damage">>}, 7) >>
        [] i = "market_intelligence" -> <<
             Rule({<<"price">>, <<"market">>, <<"mandi">>, <<"sell">>,
                   <<"buy">>}, 8),
             Rule({<<"commodity">>, <<"trading">>, <<"auction">>}, 7),
             Rule({<<"market", "rate">>, <<"current", "price">>,
                   <<"price", "trend">>}, 9) >>
        [] i = "financial" -> <<
             Rule({<<"loan">>, <<"credit">>, <<"subsidy">>, <<"insurance">>,
                   <<"EMI">>}, 8),
             Rule({<<"bank">>, <<"finance">>, <<"money">>, <<"cost">>,
                   <<"profit">>}, 6),
             Rule({<<"PM-Kisan">>, <<"crop", "insurance">>, <<"KCC">>}, 9) >>
        [] OTHER -> <<      \* "policy"
             Rule({<<"policy">>, <<"government">>, <<"scheme">>, <<"law">>,
                   <<"regulation">>}, 8),
             Rule({<<"MSP">>, <<"procurement">>, <<"support", "price">>}, 9),
             Rule({<<"eligibility">>, <<"application">>, <<"form">>}, 6) >> ]

\* the phrase occurs in the text as consecutive whole words
PhraseIn(phrase, text) ==
    \E i \in 1..(Len(text) - Len(phrase) + 1) :
        \A j \in 1..Len(phrase) : text[i + j - 1] = phrase[j]

\* re.search(pattern, query_lower)
re_search(rule, text) == \E a \in rule.alts : PhraseIn(a, text)

\* the inner loop over the rules of one intent, from rule k on:
\* score += weight, matches.append(pattern)
RECURSIVE ScanPatterns(_, _, _, _)
ScanPatterns(patterns, k, text, acc) ==
    IF k > Len(patterns) THEN acc
    ELSE ScanPatterns(patterns, k + 1, text,
            IF re_search(patterns[k], text)
            THEN [score |-> acc.score + patterns[k].weight,
                  matches |-> Append(acc.matches, k)]
            ELSE acc)

\* the score left as summed, without the cap
CapScoreNone(score) == score

\* min(score, 1.0)
CapScore(score) == IF score < 10 THEN score ELSE 10

\* the outer loop over the intents, from intent k on; intent_scores keeps
\* the insertion order of the dict
RECURSIVE ScanIntents(_, _, _)
ScanIntents(k, text, intent_scores) ==
    IF k > Len(IntentOrder) THEN intent_scores
    ELSE LET r == ScanPatterns(intent_patterns[IntentOrder[k]], 1, text,
                               [score |-> 0, matches |-> <<>>])
         IN  ScanIntents(k + 1, text,
                IF r.score > 0
                THEN Append(intent_scores,
                            [intent |-> IntentOrder[k],
                             score |-> CapScore(r.score),
                             matches |-> r.matches])
                ELSE intent_scores)

\* a max() in which the last item of maximal key wins
MaxReplacesLast(best, item) == item.score >= best.score

\* whether max() replaces its current best by the next item
MaxReplaces(best, item) == item.score > best.score

\* max(intent_scores.items(), key=score): the first item of maximal key
RECURSIVE PyMax(_, _, _)
PyMax(items, k, best) ==
    IF k > Len(items) THEN best
    ELSE PyMax(items, k + 1, IF MaxReplaces(best, items[k]) THEN items[k] ELSE best)

\* a default that names the translation intent
DefaultClassificationTranslation == [primary_intent |-> "translation", confidence |-> 5]

\* a default that names the default responder instead of "general"
DefaultClassificationCrop == [primary_intent |-> "crop_advisory", confidence |-> 5]

\* a default as confident as the weakest rule
DefaultClassificationWeakestRule == [primary_intent |-> "general", confidence |-> 6]

\* the classification when nothing is scored
DefaultClassification == [primary_intent |-> "general", confidence |-> 5]

\* IntentClassifierAgent.process: the AgentResponse it returns
ClassifierProcess(query) ==
    LET query_lower == Lower(query)
        intent_scores == ScanIntents(1, query_lower, <<>>)
        best ==
            IF intent_scores # <<>>
            THEN LET best_intent == PyMax(intent_scores, 2, intent_scores[1])
                 IN  [primary_intent |-> best_intent.intent,
                      confidence |-> best_intent.score]
            ELSE DefaultClassification
    IN  [agent_name |-> "Intent Classifier",
         response |-> <<"Classified", "as", best.primary_intent>>,
         confidence |-> best.confidence,
         metadata |-> [primary_intent |-> best.primary_intent,
                       all_intents |-> intent_scores,
                       query_length |-> Len(query)]]

----------------------------------------------------------------------------
(* JSON values and Python dicts *)

JNull == [t |-> "null"]
JStr(s) == [t |-> "str", s |-> s]
JNum(n) == [t |-> "num", n |-> n]
JBool(b) == [t |-> "bool", b |-> b]
JList(items) == [t |-> "list", items |-> items]

\* {}
EmptyDict == [k \in {} |-> JNull]

\* bool(v) of a JSON value
Truthy(v) ==
    CASE v.t = "null" -> FALSE
      [] v.t = "str" -> v.s # ""
      [] v.t = "num" -> v.n # 0
      [] v.t = "bool" -> v.b
      [] OTHER -> v.items # <<>>

\* d.get(k): None when the key is missing
DictGet(d, k) == IF k \in DOMAIN d THEN d[k] ELSE JNull

\* an update in which a null of other does not replace a value of d
DictUpdateSkipNull(d, other) ==
    [k \in DOMAIN d \cup DOMAIN other |->
        IF k \in DOMAIN other /\ (other[k] # JNull \/ k \notin DOMAIN d)
        THEN other[k] ELSE d[k]]

\* d.update(other), {**d, **other}: the keys of other win
DictUpdate(d, other) ==
    [k \in DOMAIN d \cup DOMAIN other |-> IF k \in DOMAIN other THEN other[k] ELSE d[k]]

\* d[k] = v
DictSet(d, k, v) == [x \in DOMAIN d \cup {k} |-> IF x = k THEN v ELSE d[x]]

\* json.dumps of a dict / the text of a stored record that is no JSON at all
json_dumps(obj) == [json |-> "object", value |-> obj]
Garbage == [json |-> "garbage"]

\* the text of a stored record that is JSON but no object: json.loads
\* gives the list, number, string or None it denotes
json_text(value) == [json |-> "value", value |-> value]

\* a value is a dict (and no list, number, string or None)
IsMapping(v) == "t" \notin DOMAIN v

\* json.loads: raises on text that is no JSON
json_loads_raises(data) == data.json = "garbage"
json_loads(data) == data.value

----------------------------------------------------------------------------
(* The context store (Redis) *)

AllUserIds == {"u1", "u2"}
AllSessionIds == {"s1"}

\* a key that does not depend on the user
context_key_of_u1(user_id) == <<"user_context", "u1">>

\* f"user_context:{user_id}" (orchestrator.py and base.py build the same key)
context_key(user_id) == <<"user_context", user_id>>
\* f"conversation:{user_id}:{session_id}"
conversation_key(user_id, session_id) == <<"conversation", user_id, session_id>>

StoreKeys ==
    {context_key(u) : u \in AllUserIds}
        \cup {conversation_key(u, s) : u \in AllUserIds, s \in AllSessionIds}

\* a context record that lives one day only
ContextTTLOneDay == 3600 * 24

\* TTLs in seconds
ContextTTL == 3600 * 24 * 7
ConversationTTL == 3600 * 24
MemoryTTL == 3600 * 24
\* the TTL Redis reports for a key without expiry
NoExpiry == 0 - 1

NoKey == [kind |-> "none"]

\* GET key: nil (JNull here) when the key does not exist
redis_get(st, key) == IF st[key].kind = "string" THEN st[key].data ELSE JNull

\* SETEX key ttl value
redis_setex(st, key, ttl, value) ==
    [st EXCEPT ![key] = [kind |-> "string", data |-> value, ttl |-> ttl]]

\* a push that replaces the list by the new entry
redis_lpush_overwrite(st, key, value) ==
    [st EXCEPT ![key] = [kind |-> "list", items |-> <<value>>, ttl |-> 0 - 1]]

\* LPUSH key value: creates the list (without expiry) when the key is new
redis_lpush(st, key, value) ==
    [st EXCEPT ![key] =
        IF @.kind = "list"
        THEN [@ EXCEPT !.items = <<value>> \o @]
        ELSE [kind |-> "list", items |-> <<value>>, ttl |-> NoExpiry]]

\* LTRIM key start stop (0-based, inclusive, 0 <= start <= stop)
redis_ltrim(st, key, start, stop) ==
    [st EXCEPT ![key] =
        IF @.kind = "list"
        THEN [@ EXCEPT !.items =
                SubSeq(@, start + 1, IF stop + 1 < Len(@) THEN stop + 1 ELSE Len(@))]
        ELSE @]

\* EXPIRE key seconds: no effect on a key that does not exist
redis_expire(st, key, ttl) ==
    [st EXCEPT ![key] = IF @.kind = "none" THEN @ ELSE [@ EXCEPT !.ttl = ttl]]

----------------------------------------------------------------------------
(* AgentResponse and the responders *)

AgentResponse(agent_name, response, confidence, metadata, citations, requires_followup) ==
    [agent_name |-> agent_name, response |-> response, confidence |-> confidence,
     metadata |-> metadata, citations |-> citations,
     requires_followup |-> requires_followup]

\* self.agents: the registered responders, by registry name, with the name
\* each puts into its responses
agents ==
    [n \in {"intent_classifier", "crop_advisory", "weather", "market_intelligence",
            "soil_analysis", "pest_disease", "irrigation_planning",
            "financial_planning", "policy_query", "translation", "llm_chat"} |->
      CASE n = "intent_classifier" -> "Intent Classifier"
        [] n = "crop_advisory" -> "Crop Advisory"
        [] n = "weather" -> "Weather Forecasting"
        [] n = "market_intelligence" -> "Market Intelligence"
        [] n = "soil_analysis" -> "Soil Analysis"
        [] n = "pest_disease" -> "Pest & Disease Management"
        [] n = "irrigation_planning" -> "Irrigation Planning"
        [] n = "financial_planning" -> "Financial Planning"
        [] n = "policy_query" -> "Policy & Regulations"
        [] n = "translation" -> "Translation"
        [] OTHER -> "LLMChatAgent"]

\* self.intent_to_agent
intent_to_agent ==
    [i \in {"crop_advisory", "soil_analysis", "weather", "irrigation", "pest_disease",
            "market_intelligence", "financial", "policy", "translation", "general"} |->
      CASE i = "irrigation" -> "irrigation_planning"
        [] i = "financial" -> "financial_planning"
        [] i = "policy" -> "policy_query"
        [] i = "general" -> "crop_advisory"
        [] OTHER -> i]

\* Step 3 of process_query over a registry holding the responders named in
\* registered: intent_to_agent.get(primary_intent, "crop_advisory"), then
\* agents.get(agent_name) with the fallback to agents["crop_advisory"]
SelectAgent(registered, primary_intent) ==
    LET agent_name == IF primary_intent \in DOMAIN intent_to_agent
                      THEN intent_to_agent[primary_intent]
                      ELSE "crop_advisory"
    IN  IF agent_name \in registered THEN agent_name ELSE "crop_advisory"

\* the selection of AgentOrchestrator.route: always the LLM chat responder
RouteToLlmChat(primary_intent) == "llm_chat"

\* Step 3 of process_query: the registry name of the responder to invoke
Route(primary_intent) == SelectAgent(DOMAIN agents, primary_intent)

\* an error reply without the fallback flag
SystemErrorResponseBare(e) ==
    AgentResponse("System", <<"I", "encountered", "an", "error", e>>, 1,
                  [error |-> JStr(e)], <<>>, FALSE)

\* the fixed reply of the except branch of process_query; e names the exception
SystemErrorResponse(e) ==
    AgentResponse("System", <<"I", "encountered", "an", "error", e>>, 1,
                  [error |-> JStr(e), fallback |-> JBool(TRUE)], <<>>, FALSE)

----------------------------------------------------------------------------
(* AgentOrchestrator._enhance_response *)

\* the static follow_ups table of _enhance_response
follow_ups ==
    [i \in {"crop_advisory", "weather", "market_intelligence"} |->
      CASE i = "crop_advisory" ->
             <<"Would you like weather information for your area?",
               "Do you need market price information for this crop?",
               "Would you like soil preparation advice?">>
        [] i = "weather" ->
             <<"Would you like irrigation scheduling advice?",
               "Do you need crop protection recommendations?",
               "Would you like to know about suitable crops for this weather?">>
        [] OTHER ->
             <<"Would you like crop advisory for better profits?",
               "Do you need information about storage and transportation?",
               "Would you like to know about government schemes?">>]

\* the strings that occur inside a word
Substrings(w) ==
    CASE w = "punjabi" -> {"punjabi", "punjab"}
      [] OTHER -> {w}

\* a containment test that compares whole words only
StrInWholeWord(needle, text) == \E i \in 1..Len(text) : text[i] = needle

\* `needle in text` for a one-word needle: it occurs inside a word of the text
StrIn(needle, text) == \E i \in 1..Len(text) : needle \in Substrings(text[i])

\* "\n\n*Note: This advice is tailored for {location} region.*"
LocationNote(location) == <<"Note:", "tailored", "for", location, "region">>

\* "\n\n**Related Questions:**\n" followed by the first two suggestions
RelatedQuestions(primary_intent) ==
    <<"Related", "Questions:">> \o SubSeq(follow_ups[primary_intent], 1, 2)

\* location.lower() raises when the location is set but is no string
EnhanceRaises(user_context) ==
    LET location == DictGet(user_context, "location")
    IN  Truthy(location) /\ location.t # "str"

\* a flag that passes the responder's own requires_followup on
RequiresFollowupOfResponder(response, primary_intent) == response.requires_followup

\* requires_followup=len(follow_ups.get(primary_intent, [])) > 0
RequiresFollowup(response, primary_intent) ==
    primary_intent \in DOMAIN follow_ups /\ Len(follow_ups[primary_intent]) > 0

\* a merge in which the keys of the responder win
EnhancedMetadataResponderWins(response, intent_response, user_context) ==
    DictUpdate([intent_confidence |-> JNum(intent_response.confidence),
                primary_intent |-> JStr(intent_response.metadata.primary_intent),
                user_context_used |-> JBool(user_context # EmptyDict)],
               response.metadata)

\* metadata={**response.metadata, "intent_confidence": ..,
\* "primary_intent": .., "user_context_used": bool(user_context)}
EnhancedMetadata(response, intent_response, user_context) ==
    DictUpdate(response.metadata,
               [intent_confidence |-> JNum(intent_response.confidence),
                primary_intent |-> JStr(intent_response.metadata.primary_intent),
                user_context_used |-> JBool(user_context # EmptyDict)])

\* the note put in front of the responder's text instead of behind it
WithNoteInFront(text, user_context) ==
    LET location == DictGet(user_context, "location")
    IN  IF Truthy(location) /\ ~StrIn(LowerWord(location.s), Lower(text))
        THEN LocationNote(location.s) \o text
        ELSE text

\* enhanced_response with the location note appended when the location is
\* set and not in the text
WithNote(text, user_context) ==
    LET location == DictGet(user_context, "location")
    IN  IF Truthy(location) /\ ~StrIn(LowerWord(location.s), Lower(text))
        THEN text \o LocationNote(location.s)
        ELSE text

\* _enhance_response(response, intent_response, user_context)
EnhanceResponse(response, intent_response, user_context) ==
    LET with_note == WithNote(response.response, user_context)
        primary_intent == intent_response.metadata.primary_intent
        enhanced_text ==
            IF primary_intent \in DOMAIN follow_ups
            THEN with_note \o RelatedQuestions(primary_intent)
            ELSE with_note
    IN  AgentResponse(
            response.agent_name,
            enhanced_text,
            response.confidence,
            EnhancedMetadata(response, intent_response, user_context),
            response.citations,
            RequiresFollowup(response, primary_intent))

----------------------------------------------------------------------------
(* AgentOrchestrator.process_query, one step per await on the store or the *)
(* responder                                                               *)

\* number of turns conversation_history and the rolling log keep
HistoryLimit == 10

\* lst[-n:]
LastN(lst, n) == IF Len(lst) <= n THEN lst ELSE SubSeq(lst, Len(lst) - n + 1, Len(lst))

\* lst[:n]
FirstN(lst, n) == IF Len(lst) <= n THEN lst ELSE SubSeq(lst, 1, n)

\* a cut that keeps the oldest turns
TruncateHistoryHead(history) == FirstN(history, HistoryLimit)

\* no cut at all
TruncateHistoryOff(history) == history

\* user_context["conversation_history"][-10:]
TruncateHistory(history) == LastN(history, HistoryLimit)

Slots == {1, 2}

Idle ==
    [pc |-> "idle", user_id |-> "", session_id |-> "", query |-> <<>>,
     context |-> JNull, intent_response |-> JNull, load |-> "",
     user_context |-> EmptyDict, agent_name |-> "", agent_context |-> EmptyDict,
     response |-> JNull, enhanced_response |-> JNull,
     saved_context |-> EmptyDict, reply |-> JNull, raised |-> ""]

\* the except branch of process_query
Fail(r, e) ==
    rq' = [rq EXCEPT ![r].pc = "done", ![r].raised = e,
                     ![r].reply = SystemErrorResponse(e)]

\* process_query is entered: Step 1, the classifier (which does not suspend)
Start(r, user_id, session_id, query, context, limit) ==
    /\ rq[r].pc = "idle"
    /\ calls < limit
    /\ calls' = calls + 1
    /\ rq' = [rq EXCEPT ![r] =
                [Idle EXCEPT !.pc = "get_context", !.user_id = user_id,
                             !.session_id = session_id, !.query = query,
                             !.context = context,
                             !.intent_response = ClassifierProcess(query)]]
    /\ UNCHANGED <<cl, store, turns>>

\* _get_user_context: {} when the key is missing, the read fails (ok is
\* FALSE) or the record does not parse
LoadOutcome(st, user_id, ok) ==
    LET context_data == redis_get(st, context_key(user_id))
    IN  IF ~ok THEN "read_failed"
        ELSE IF context_data = JNull THEN "missing"
        ELSE IF json_loads_raises(context_data) THEN "unparseable"
        ELSE "loaded"

get_user_context(st, user_id, ok) ==
    IF LoadOutcome(st, user_id, ok) = "loaded"
    THEN json_loads(redis_get(st, context_key(user_id)))
    ELSE EmptyDict

\* a merge that does not create the missing history
MergeContextNoHistory(loaded, context) ==
    IF context # JNull /\ context # EmptyDict THEN DictUpdate(loaded, context) ELSE loaded

\* a merge in which a caller's context replaces the loaded one
MergeContextCallerReplaces(loaded, context) ==
    LET merged == IF context # JNull /\ context # EmptyDict THEN context ELSE loaded
    IN  IF "conversation_history" \in DOMAIN merged THEN merged
        ELSE DictSet(merged, "conversation_history", JList(<<>>))

\* Step 2 after the load: the caller's context overrides, and the history
\* is created when missing
MergeContext(loaded, context) ==
    LET merged == IF context # JNull /\ context # EmptyDict
                  THEN DictUpdate(loaded, context) ELSE loaded
    IN  IF "conversation_history" \in DOMAIN merged THEN merged
        ELSE DictSet(merged, "conversation_history", JList(<<>>))

\* Step 2 raises when the loaded value is no dict: a list or None has no
\* update (AttributeError), and without a caller context the membership
\* test or the item assignment of the history fails (TypeError)
MergeRaises(loaded, context) == ~IsMapping(loaded)

MergeError(context) ==
    IF context # JNull /\ context # EmptyDict THEN "AttributeError" ELSE "TypeError"

\* Steps 2 and 3: the context is loaded and merged, the responder selected
GetContext(r, ok) ==
    /\ rq[r].pc = "get_context"
    /\ LET loaded == get_user_context(store, rq[r].user_id, ok)
       IN  IF MergeRaises(loaded, rq[r].context)
           THEN rq' = [rq EXCEPT ![r].pc = "done",
                          ![r].load = LoadOutcome(store, rq[r].user_id, ok),
                          ![r].raised = MergeError(rq[r].context),
                          ![r].reply =
                              SystemErrorResponse(MergeError(rq[r].context))]
           ELSE LET user_context == MergeContext(loaded, rq[r].context)
                IN  rq' = [rq EXCEPT ![r].pc = "agent",
                              ![r].load = LoadOutcome(store, rq[r].user_id, ok),
                              ![r].user_context = user_context,
                              ![r].agent_context = user_context,
                              ![r].agent_name =
                                  Route(rq[r].intent_response.metadata.primary_intent)]
    /\ UNCHANGED <<cl, store, turns, calls>>

\* the turn Step 6 appends to conversation_history
Turn(query, enhanced_response) ==
    [user |-> query, assistant |-> enhanced_response.response]

\* Steps 4 to 6 up to the first store call of _save_conversation: the
\* responder returns, the response is enhanced, the turn is appended and the
\* history cut; the append raises when the history is missing or no list
AgentReturns(r, out) ==
    /\ rq[r].pc = "agent"
    /\ LET response == AgentResponse(agents[rq[r].agent_name], out.response,
                                     out.confidence, out.metadata, out.citations,
                                     out.requires_followup)
           enhanced == EnhanceResponse(response, rq[r].intent_response,
                                       rq[r].user_context)
           history == DictGet(rq[r].user_context, "conversation_history")
       IN  IF EnhanceRaises(rq[r].user_context)
           THEN rq' = [rq EXCEPT ![r].pc = "done",
                          ![r].response = response,
                          ![r].raised = "AttributeError",
                          ![r].reply = SystemErrorResponse("AttributeError")]
           ELSE IF history.t = "list"
           THEN rq' = [rq EXCEPT ![r].pc = "lpush",
                          ![r].response = response,
                          ![r].enhanced_response = enhanced,
                          ![r].user_context =
                              DictSet(@, "conversation_history",
                                  JList(TruncateHistory(
                                      Append(history.items,
                                             Turn(rq[r].query, enhanced)))))]
           ELSE rq' = [rq EXCEPT ![r].pc = "done",
                          ![r].response = response,
                          ![r].enhanced_response = enhanced,
                          ![r].raised = "AttributeError",
                          ![r].reply = SystemErrorResponse("AttributeError")]
    /\ UNCHANGED <<cl, store, turns, calls>>

\* a failure of the responder after which the working context is saved
\* all the same
AgentRaisesAndSaves(r) ==
    /\ rq[r].pc = "agent"
    /\ Fail(r, "ResponderError")
    /\ store' = redis_setex(store, context_key(rq[r].user_id), ContextTTL,
                            json_dumps(rq[r].user_context))
    /\ UNCHANGED <<cl, turns, calls>>

\* Step 4: the responder raises
AgentRaises(r) ==
    /\ rq[r].pc = "agent"
    /\ Fail(r, "ResponderError")
    /\ UNCHANGED <<cl, store, turns, calls>>

\* the record _save_conversation pushes on the rolling log; the timestamp is
\* the event loop's clock, here the number of calls started so far
ConversationData(query, response, now) ==
    json_dumps([query |-> query, response |-> response.response,
                agent |-> response.agent_name, confidence |-> response.confidence,
                timestamp |-> now])

\* ltrim(conversation_key, 0, 9): the index of the last entry kept
LogTrimStop == 9

\* a failed store call that sends the query back to the responder
SaveSkippedRetries(r) == rq' = [rq EXCEPT ![r].pc = "agent"]

\* the except branch of _save_conversation: the rest of it is skipped and
\* process_query goes on with its own context write
SaveSkipped(r) == rq' = [rq EXCEPT ![r].pc = "final_save"]

\* _save_conversation: redis_client.lpush
SaveLpush(r, ok) ==
    /\ rq[r].pc = "lpush"
    /\ IF ok
       THEN /\ store' = redis_lpush(store,
                            conversation_key(rq[r].user_id, rq[r].session_id),
                            ConversationData(rq[r].query, rq[r].enhanced_response,
                                             calls))
            /\ rq' = [rq EXCEPT ![r].pc = "ltrim"]
       ELSE /\ SaveSkipped(r)
            /\ UNCHANGED store
    /\ UNCHANGED <<cl, turns, calls>>

\* _save_conversation: redis_client.ltrim
SaveLtrim(r, ok) ==
    /\ rq[r].pc = "ltrim"
    /\ IF ok
       THEN /\ store' = redis_ltrim(store,
                            conversation_key(rq[r].user_id, rq[r].session_id),
                            0, LogTrimStop)
            /\ rq' = [rq EXCEPT ![r].pc = "expire"]
       ELSE /\ SaveSkipped(r)
            /\ UNCHANGED store
    /\ UNCHANGED <<cl, turns, calls>>

\* _save_conversation: redis_client.expire
SaveExpire(r, ok) ==
    /\ rq[r].pc = "expire"
    /\ IF ok
       THEN /\ store' = redis_expire(store,
                            conversation_key(rq[r].user_id, rq[r].session_id),
                            ConversationTTL)
            /\ rq' = [rq EXCEPT ![r].pc = "reload"]
       ELSE /\ SaveSkipped(r)
            /\ UNCHANGED store
    /\ UNCHANGED <<cl, turns, calls>>

\* _save_conversation: the well-known metadata keys go into the context
ExtractContext(user_context, metadata) ==
    LET with_location ==
            IF "location" \in DOMAIN metadata
            THEN DictSet(user_context, "location", metadata["location"])
            ELSE user_context
        with_commodity ==
            IF "commodity" \in DOMAIN metadata
            THEN DictSet(with_location, "last_commodity", metadata["commodity"])
            ELSE with_location
    IN  IF "crop_types" \in DOMAIN metadata
        THEN DictSet(with_commodity, "crop_interests", metadata["crop_types"])
        ELSE with_commodity

\* _save_conversation: the context is read again and updated from the
\* metadata of the enhanced response
SaveReload(r, ok) ==
    /\ rq[r].pc = "reload"
    /\ rq' = [rq EXCEPT ![r].pc = "save",
                 ![r].saved_context =
                     LET user_context == get_user_context(store, rq[r].user_id, ok)
                         metadata == rq[r].enhanced_response.metadata
                     IN  IF metadata # EmptyDict
                         THEN ExtractContext(user_context, metadata)
                         ELSE user_context]
    /\ UNCHANGED <<cl, store, turns, calls>>

\* _save_conversation: redis_client.setex of the context read again
SaveContext(r, ok) ==
    /\ rq[r].pc = "save"
    /\ rq' = [rq EXCEPT ![r].pc = "final_save"]
    /\ store' = IF ok
                THEN redis_setex(store, context_key(rq[r].user_id), ContextTTL,
                                 json_dumps(rq[r].saved_context))
                ELSE store
    /\ UNCHANGED <<cl, turns, calls>>

\* a final record that appends the turn to the history stored by now
\* instead of storing the working copy
FinalRecordAppendsToStored(r) ==
    LET stored == get_user_context(store, rq[r].user_id, TRUE)
        history == IF "conversation_history" \in DOMAIN stored
                   THEN stored["conversation_history"].items ELSE <<>>
    IN  json_dumps(DictSet(rq[r].user_context, "conversation_history",
            JList(TruncateHistory(
                Append(history, Turn(rq[r].query, rq[r].enhanced_response))))))

\* a final record that is the one _save_conversation wrote, with the
\* extracted keys, plus the history of the working copy
FinalRecordOfSaveConversation(r) ==
    json_dumps(DictSet(rq[r].saved_context, "conversation_history",
                       rq[r].user_context["conversation_history"]))

\* a final record that is the record stored by now, saved again
FinalRecordReloaded(r) == json_dumps(get_user_context(store, rq[r].user_id, TRUE))

\* what process_query returns after its own setex
FinalReply(r, ok) ==
    IF ok THEN rq[r].enhanced_response ELSE SystemErrorResponse("StoreError")

\* the context record process_query writes at its end
FinalRecord(r) == json_dumps(rq[r].user_context)

\* process_query: redis_client.setex of the working context, and the return
FinalSave(r, ok) ==
    /\ rq[r].pc = "final_save"
    /\ rq' = [rq EXCEPT ![r].pc = "done",
                 ![r].raised = IF ok THEN "" ELSE "StoreError",
                 ![r].reply = FinalReply(r, ok)]
    /\ store' = IF ok
                THEN redis_setex(store, context_key(rq[r].user_id), ContextTTL,
                                 FinalRecord(r))
                ELSE store
    /\ UNCHANGED <<cl, turns, calls>>

\* the caller has the reply; the slot is free for the next call
Return(r) ==
    /\ rq[r].pc = "done"
    /\ rq' = [rq EXCEPT ![r] = Idle]
    /\ turns' = Append(turns, [user |-> rq[r].query,
                               assistant |-> rq[r].reply.response])
    /\ UNCHANGED <<cl, store, calls>>

----------------------------------------------------------------------------
(* BaseAgent.save_memory_context *)

\* save_memory_context(user_id, context, redis_client): a failure of the
\* write (ok is FALSE) is swallowed
SaveMemoryContext(user_id, context, ok) ==
    /\ store' = IF ok
                THEN redis_setex(store, context_key(user_id), MemoryTTL,
                                 json_dumps(context))
                ELSE store
    /\ UNCHANGED <<cl, rq, turns, calls>>

----------------------------------------------------------------------------
(* Inputs of the orchestrator runs *)

\* a turn of an earlier conversation, as a caller may hand it in
PastTurn(k) ==
    [user |-> <<"past", ToString(k)>>, assistant |-> <<"reply", ToString(k)>>]

\* a caller-supplied history longer than the stored one may get
LongHistory == [k \in 1..(HistoryLimit + 2) |-> PastTurn(k)]

NoContext == JNull

\* the context arguments of process_query
Contexts ==
    {NoContext,
     [location |-> JStr("Punjab")],
     [conversation_history |-> JList(LongHistory)],
     [conversation_history |-> JNull]}

\* the query texts of process_query
Queries == {<<"which", "crop">>, <<"hello">>}

\* what a responder may return, but for its name
AgentOutputs ==
    {[response |-> text, confidence |-> 9, metadata |-> metadata,
      citations |-> <<"ICAR">>, requires_followup |-> FALSE] :
        text \in {<<"grow", "wheat">>},
        metadata \in {EmptyDict,
                      [location |-> JStr("punjab")],
                      [commodity |-> JStr("wheat"),
                       crop_types |-> JList(<<"wheat">>)]}}

\* one query for each intent of the classifier, one that matches nothing and
\* one that asks for a translation
IntentQueries ==
    {<<"crop">>, <<"soil">>, <<"temperature">>, <<"water">>, <<"pest">>,
     <<"price">>, <<"loan">>, <<"policy">>, <<"hello">>,
     <<"translate", "translation">>}

\* the context arguments of the calls with a query for every intent
IntentContexts == {NoContext, [language |-> JStr("hi")]}

\* what a responder may return in these calls: its own requires_followup,
\* and metadata that may use the keys the enhancer sets
IntentOutputs ==
    {[response |-> <<"grow", "wheat">>, confidence |-> 9, metadata |-> metadata,
      citations |-> <<"ICAR">>, requires_followup |-> requires_followup] :
        requires_followup \in BOOLEAN,
        metadata \in {[source |-> JStr("ICAR")],
                      [source |-> JStr("ICAR"),
                       primary_intent |-> JStr("responder"),
                       intent_confidence |-> JNum(0),
                       user_context_used |-> JBool(FALSE)]}}

\* context arguments with scalar fields, as send_message builds them
FieldContexts ==
    {NoContext,
     [location |-> JStr("Punjab")],
     [location |-> JStr("Kerala"), farm_size |-> JNum(2)],
     [language |-> JStr("hi")]}

\* context arguments with and without a location
NoteContexts ==
    {NoContext,
     [location |-> JStr("Punjab")],
     [location |-> JStr("punjab")],
     [location |-> JStr("")],
     [location |-> JNull]}

\* responses that do not name the location, name it in another case, or
\* have it inside a longer word
NoteOutputs ==
    {[response |-> text, confidence |-> 9, metadata |-> EmptyDict,
      citations |-> <<"ICAR">>, requires_followup |-> FALSE] :
        text \in {<<"grow", "wheat">>,
                  <<"wheat", "in", "Punjab">>,
                  <<"Punjabi", "wheat">>,
                  <<>>}}

\* the one response the responder gives in the runs that look at the stages
StageOutputs ==
    {[response |-> <<"grow", "wheat">>, confidence |-> 9,
      metadata |-> [location |-> JStr("punjab")],
      citations |-> <<"ICAR">>, requires_followup |-> FALSE]}

\* context arguments as send_message builds them from the user's profile:
\* a field the profile does not have is null
OverrideContexts ==
    {[location |-> JStr("Punjab"), language |-> JStr("hi")],
     [location |-> JNull],
     [location |-> JStr("Kerala"), conversation_history |-> JList(<<PastTurn(1)>>)]}

\* stored records that are JSON but no object: [], null, 5, "abc"
NonObjectRecords ==
    {json_text(JList(<<>>)), json_text(JNull), json_text(JNum(5)),
     json_text(JStr("abc"))}

----------------------------------------------------------------------------
(* Specifications *)

\* the stand-alone classifier before its first call (no query yet is fixed
\* by the orchestrator runs)
ClassifierUnused == [query |-> <<>>, results |-> <<>>]

\* the store when the process starts: empty, or with a context record of
\* u1 that is no JSON (left by another writer)
InitialStores ==
    {[k \in StoreKeys |-> NoKey],
     [k \in StoreKeys |->
        IF k = context_key("u1")
        THEN [kind |-> "string", data |-> Garbage, ttl |-> ContextTTL]
        ELSE NoKey]}

InitOrchestrator(stores) ==
    /\ store \in stores
    /\ rq = [r \in Slots |-> Idle]
    /\ turns = <<>>
    /\ calls = 0

Init == cl = ClassifierUnused /\ InitOrchestrator(InitialStores)

\* one step of the process_query call in slot r
Step(r, outcomes, outputs) ==
    \/ \E ok \in outcomes : GetContext(r, ok)
    \/ \E out \in outputs : AgentReturns(r, out)
    \/ \E ok \in outcomes : SaveLpush(r, ok)
    \/ \E ok \in outcomes : SaveLtrim(r, ok)
    \/ \E ok \in outcomes : SaveExpire(r, ok)
    \/ \E ok \in outcomes : SaveReload(r, ok)
    \/ \E ok \in outcomes : SaveContext(r, ok)
    \/ \E ok \in outcomes : FinalSave(r, ok)
    \/ Return(r)

\* calls of one user, one after another, with every failure the store and
\* the responders can show
Next ==
    \/ \E q \in Queries, c \in Contexts : Start(1, "u1", "s1", q, c, MaxCalls)
    \/ Step(1, BOOLEAN, AgentOutputs)
    \/ AgentRaises(1)

Spec == Init /\ [][Next]_vars

\* n calls of one user, one after another, without caller context, where
\* every store call and every responder call succeeds
InitSeq == cl = ClassifierUnused /\ InitOrchestrator({[k \in StoreKeys |-> NoKey]})

NextSeq ==
    \/ \E q \in Queries : Start(1, "u1", "s1", q, NoContext, MaxSeqCalls)
    \/ Step(1, {TRUE}, AgentOutputs)

SpecSeq == InitSeq /\ [][NextSeq]_vars

\* n calls of one user, one after another, in which the store may fail on
\* the trim and on the expire of the rolling log (the connection is lost
\* after the push) and every other call succeeds
NextLog ==
    \/ Start(1, "u1", "s1", <<"which", "crop">>, NoContext, MaxSeqCalls)
    \/ GetContext(1, TRUE)
    \/ \E out \in StageOutputs : AgentReturns(1, out)
    \/ SaveLpush(1, TRUE)
    \/ \E ok \in BOOLEAN : SaveLtrim(1, ok)
    \/ \E ok \in BOOLEAN : SaveExpire(1, ok)
    \/ SaveReload(1, TRUE)
    \/ SaveContext(1, TRUE)
    \/ FinalSave(1, TRUE)
    \/ Return(1)

SpecLog == InitSeq /\ [][NextLog]_vars

\* calls of one user with a query for every intent, where every store call
\* and every responder call succeeds
NextIntents ==
    \/ \E q \in IntentQueries, c \in IntentContexts :
          Start(1, "u1", "s1", q, c, MaxIntentCalls)
    \/ Step(1, {TRUE}, IntentOutputs)

SpecIntents == InitSeq /\ [][NextIntents]_vars

\* calls of one user with and without a location, answered with and without
\* the location in the text, where every store call succeeds
NextNote ==
    \/ \E q \in Queries, c \in NoteContexts :
          Start(1, "u1", "s1", q, c, MaxIntentCalls)
    \/ Step(1, {TRUE}, NoteOutputs)

SpecNote == InitSeq /\ [][NextNote]_vars

\* calls of one user, one after another, with scalar fields in the context
\* argument, where every store call and every responder call succeeds
NextFields ==
    \/ \E q \in Queries, c \in FieldContexts : Start(1, "u1", "s1", q, c, MaxCalls)
    \/ Step(1, {TRUE}, AgentOutputs)

SpecFields == InitSeq /\ [][NextFields]_vars

\* the store when another writer has left a context record of u1 that is
\* JSON but no object, or has left none
InitNonObject ==
    /\ cl = ClassifierUnused
    /\ InitOrchestrator(
          {[k \in StoreKeys |-> NoKey]}
            \cup {[k \in StoreKeys |->
                     IF k = context_key("u1")
                     THEN [kind |-> "string", data |-> data, ttl |-> ContextTTL]
                     ELSE NoKey] : data \in NonObjectRecords})

\* calls of one user, one after another, with and without a context
\* argument, where every store call and every responder call succeeds
NextNonObject ==
    \/ \E q \in Queries, c \in {NoContext, [location |-> JStr("Punjab")]} :
          Start(1, "u1", "s1", q, c, MaxCalls)
    \/ Step(1, {TRUE}, StageOutputs)

SpecNonObject == InitNonObject /\ [][NextNonObject]_vars

\* calls of one user, one after another, whose context arguments override
\* stored fields, also with null, where every store call succeeds
NextOverride ==
    \/ \E c \in OverrideContexts : Start(1, "u1", "s1", <<"hello">>, c, MaxCalls)
    \/ Step(1, {TRUE}, StageOutputs)

SpecOverride == InitSeq /\ [][NextOverride]_vars

\* the query of the caller that owns slot r
SlotQuery(r) == IF r = 1 THEN <<"which", "crop">> ELSE <<"soil">>

\* two callers of the same user and session, each with its own query, whose
\* calls may overlap: every await of one call is a point where the event
\* loop may run the other; every store call and responder call succeeds
NextRace ==
    \E r \in Slots :
        \/ Start(r, "u1", "s1", SlotQuery(r), NoContext, MaxRaceCalls)
        \/ Step(r, {TRUE}, AgentOutputs)

SpecRace == InitSeq /\ [][NextRace]_vars

\* the number of calls after which the second caller joins: the last three
\* calls of a run may overlap
LogFill == MaxSeqCalls - 3

\* one caller of u1 fills the rolling log call by call; from LogFill calls
\* on a second caller of the same user and session overlaps with it; every
\* store call and responder call succeeds
NextRaceLog ==
    \/ Start(1, "u1", "s1", SlotQuery(1), NoContext, MaxSeqCalls)
    \/ calls >= LogFill /\ Start(2, "u1", "s1", SlotQuery(2), NoContext, MaxSeqCalls)
    \/ \E r \in Slots : Step(r, {TRUE}, StageOutputs)

SpecRaceLog == InitSeq /\ [][NextRaceLog]_vars

\* the user of the caller that owns slot r
SlotUser(r) == IF r = 1 THEN "u1" ELSE "u2"

\* two callers, one per user, whose calls may overlap; every store call and
\* responder call succeeds
NextUsers ==
    \E r \in Slots :
        \/ Start(r, SlotUser(r), "s1", SlotQuery(r), NoContext, MaxRaceCalls)
        \/ Step(r, {TRUE}, AgentOutputs)

SpecUsers == InitSeq /\ [][NextUsers]_vars

\* the memory snapshots a responder may save
MemoryContexts == {[soil_type |-> JStr("loam")]}

\* the calls of Spec, and responders saving their memory snapshot of u1
NextMemory ==
    \/ Next
    \/ \E c \in MemoryContexts, ok \in BOOLEAN : SaveMemoryContext("u1", c, ok)

SpecMemory == Init /\ [][NextMemory]_vars

\* calls of one user with one query and no context argument, one after
\* another, with every failure the store and the responder can show
NextStages ==
    \/ Start(1, "u1", "s1", <<"which", "crop">>, NoContext, MaxCalls)
    \/ Step(1, BOOLEAN, StageOutputs)
    \/ AgentRaises(1)

SpecStages == InitSeq /\ [][NextStages]_vars

\* the calls of SpecStages, and responders saving their memory snapshot of
\* u1 in between
NextExpiry ==
    \/ NextStages
    \/ \E c \in MemoryContexts, ok \in BOOLEAN : SaveMemoryContext("u1", c, ok)

SpecExpiry == InitSeq /\ [][NextExpiry]_vars

----------------------------------------------------------------------------
(* Stand-alone classifier calls *)

RECURSIVE TextsUpTo(_)
TextsUpTo(n) ==
    IF n = 0 THEN {<<>>}
    ELSE LET shorter == TextsUpTo(n - 1)
         IN  shorter \cup {Append(t, w) : t \in shorter, w \in Vocabulary}

ClassifierQueries == TextsUpTo(MaxQueryLen)

\* the classifier is stateless: a run fixes a query and calls process on it
\* up to MaxClassifyCalls times, keeping every AgentResponse it returned
InitClassifier ==
    /\ \E query \in ClassifierQueries : cl = [query |-> query, results |-> <<>>]
    /\ InitOrchestrator({[k \in StoreKeys |-> NoKey]})

\* one call of IntentClassifierAgent.process(query)
Classify ==
    /\ Len(cl.results) < MaxClassifyCalls
    /\ cl' = [cl EXCEPT !.results = Append(@, ClassifierProcess(cl.query))]
    /\ UNCHANGED orch_vars

NextClassifier == Classify

SpecClassifier == InitClassifier /\ [][NextClassifier]_vars

----------------------------------------------------------------------------
(* Properties of the classifier, checked under SpecClassifier *)

Intents == {IntentOrder[k] : k \in 1..Len(IntentOrder)}

\* the rules of an intent that match the lower-cased query
MatchingRules(intent, query) ==
    {k \in 1..Len(intent_patterns[intent]) :
        re_search(intent_patterns[intent][k], Lower(query))}

RECURSIVE WeightSum(_, _)
WeightSum(intent, ks) ==
    IF ks = {} THEN 0
    ELSE LET k == CHOOSE x \in ks : TRUE
         IN  intent_patterns[intent][k].weight + WeightSum(intent, ks \ {k})

\* min(1.0, sum of the weights of the matching rules), in tenths
ExpectedScore(intent, query) ==
    LET total == WeightSum(intent, MatchingRules(intent, query))
    IN  IF total > 10 THEN 10 ELSE total

NoPatternMatches(query) == \A i \in Intents : MatchingRules(i, query) = {}

\* the entries of an all_intents mapping for one intent
EntriesOf(all_intents, intent) ==
    {k \in 1..Len(all_intents) : all_intents[k].intent = intent}

\* C1: a query that matches no pattern of any intent is classified as
\* "general" with confidence 0.5 exactly and an empty all_intents mapping.
C1_NoMatchIsGeneral ==
    \A n \in 1..Len(cl.results) :
        NoPatternMatches(cl.query) =>
            /\ cl.results[n].metadata.primary_intent = "general"
            /\ cl.results[n].confidence = 5
            /\ cl.results[n].metadata.all_intents = <<>>

\* a non-empty query without any match has been classified (among them the
\* queries whose only keyword is the upper-case "MSP")
C1_Witness ==
    /\ Len(cl.results) > 0
    /\ cl.query # <<>>
    /\ StrIn("MSP", cl.query)
    /\ NoPatternMatches(cl.query)

\* C2: an intent is in the score mapping iff one of its patterns matches the
\* lower-cased query, and its score is then min(1.0, sum of the matching
\* weights); no score exceeds 1.0.
C2_ScoreIsCappedSum ==
    \A n \in 1..Len(cl.results) :
        LET all_intents == cl.results[n].metadata.all_intents
        IN  \A i \in Intents :
              /\ (EntriesOf(all_intents, i) # {}) <=> (MatchingRules(i, cl.query) # {})
              /\ Cardinality(EntriesOf(all_intents, i)) <= 1
              /\ \A k \in EntriesOf(all_intents, i) :
                    /\ all_intents[k].score = ExpectedScore(i, cl.query)
                    /\ all_intents[k].score <= 10

\* an intent whose matched weights add up to more than 1.0 has been scored,
\* next to an intent that matched nothing
C2_Witness ==
    /\ Len(cl.results) > 0
    /\ \E i \in Intents :
          /\ WeightSum(i, MatchingRules(i, cl.query)) > 10
          /\ EntriesOf(cl.results[1].metadata.all_intents, i) # {}
    /\ \E i \in Intents : MatchingRules(i, cl.query) = {}

\* the position of the winner: the first intent, in registration order,
\* whose capped score is maximal
IsFirstMaximal(p, query) ==
    /\ \A k \in 1..Len(IntentOrder) :
          ExpectedScore(IntentOrder[k], query) <= ExpectedScore(IntentOrder[p], query)
    /\ \A k \in 1..(p - 1) :
          ExpectedScore(IntentOrder[k], query) < ExpectedScore(IntentOrder[p], query)

\* C3: when some intent is scored, primary_intent is the first intent in
\* registration order among those of maximal capped score, the confidence is
\* that score, and classifying the query again gives the same answer.
C3_FirstMaximalWins ==
    /\ \A n \in 1..Len(cl.results) :
          ~NoPatternMatches(cl.query) =>
              \E p \in 1..Len(IntentOrder) :
                  /\ IsFirstMaximal(p, cl.query)
                  /\ cl.results[n].metadata.primary_intent = IntentOrder[p]
                  /\ cl.results[n].confidence = ExpectedScore(IntentOrder[p], cl.query)
    /\ \A n, m \in 1..Len(cl.results) :
          /\ cl.results[n].metadata.primary_intent = cl.results[m].metadata.primary_intent
          /\ cl.results[n].confidence = cl.results[m].confidence

\* a query on which two intents tie for the maximal score has been
\* classified twice
C3_Witness ==
    /\ Len(cl.results) >= 2
    /\ \E p, q \in 1..Len(IntentOrder) :
          /\ p < q
          /\ IsFirstMaximal(p, cl.query)
          /\ ExpectedScore(IntentOrder[q], cl.query) = ExpectedScore(IntentOrder[p], cl.query)
          /\ ExpectedScore(IntentOrder[p], cl.query) > 0

----------------------------------------------------------------------------
(* Properties of process_query *)

HasRecord(user_id) ==
    /\ store[context_key(user_id)].kind = "string"
    /\ ~json_loads_raises(store[context_key(user_id)].data)

\* the context a load for the user returns now
StoredContext(user_id) == json_loads(store[context_key(user_id)].data)

HasHistory(user_id) ==
    HasRecord(user_id) /\ "conversation_history" \in DOMAIN StoredContext(user_id)

StoredHistory(user_id) == StoredContext(user_id)["conversation_history"]

\* kept is what remains of full when only oldest entries are dropped to
\* keep at most HistoryLimit
IsNewestOf(kept, full) ==
    LET dropped == Len(full) - Len(kept)
    IN  /\ dropped >= 0
        /\ Len(kept) = (IF Len(full) < HistoryLimit THEN Len(full) ELSE HistoryLimit)
        /\ \A i \in 1..Len(kept) : kept[i] = full[dropped + i]

Succeeded(r) == rq[r].pc = "done" /\ rq[r].raised = ""

\* C4: whatever calls were made (failed or not, with or without a history in
\* the context argument), the persisted conversation_history has at most 10
\* entries, and a call that drops entries drops the oldest ones.
C4_HistoryBounded ==
    /\ \A u \in AllUserIds :
          HasHistory(u) =>
              /\ StoredHistory(u).t = "list"
              /\ Len(StoredHistory(u).items) <= HistoryLimit
    /\ Succeeded(1) =>
          /\ HasHistory(rq[1].user_id)
          /\ IsNewestOf(StoredHistory(rq[1].user_id).items,
                        Append(rq[1].agent_context["conversation_history"].items,
                               Turn(rq[1].query, rq[1].reply)))

\* a call without caller-supplied history has succeeded on a stored history
\* that was full, and another one with a caller-supplied history longer than
\* the limit came before it
C4_Witness ==
    /\ Succeeded(1)
    /\ rq[1].context = NoContext
    /\ rq[1].load = "loaded"
    /\ Len(rq[1].agent_context["conversation_history"].items) = HistoryLimit
    /\ Len(StoredHistory("u1").items) = HistoryLimit

\* C5: after n failure-free calls in a row without caller-supplied history,
\* the persisted history is exactly the last min(n, 10) turns in arrival
\* order, each with the query and the reply text of its call; after 11 calls
\* these are the turns 2 to 11.
C5_LastTurnsKept ==
    (rq[1].pc = "idle" /\ calls > 0) =>
        /\ Len(turns) = calls
        /\ HasHistory("u1")
        /\ LET kept == StoredHistory("u1").items
               n == IF calls < HistoryLimit THEN calls ELSE HistoryLimit
           IN  /\ Len(kept) = n
               /\ \A i \in 1..n : kept[i] = turns[calls - n + i]
               /\ calls = HistoryLimit + 1 =>
                      kept = [i \in 1..HistoryLimit |-> turns[i + 1]]

\* eleven calls have returned and the first and the last turn differ
C5_Witness ==
    /\ rq[1].pc = "idle"
    /\ calls = HistoryLimit + 1
    /\ Len(turns) = HistoryLimit + 1
    /\ turns[1] # turns[HistoryLimit + 1]
    /\ Len(StoredHistory("u1").items) = HistoryLimit

\* the context key each well-known metadata key is extracted to
ExtractedKey(k) ==
    CASE k = "location" -> "location"
      [] k = "commodity" -> "last_commodity"
      [] OTHER -> "crop_interests"

\* C6: after a successful call whose enhanced metadata has location,
\* commodity or crop_types, the persisted context record has location,
\* last_commodity or crop_interests with that value.
C6_MetadataPersisted ==
    Succeeded(1) =>
        \A k \in {"location", "commodity", "crop_types"} :
            k \in DOMAIN rq[1].reply.metadata =>
                /\ HasRecord(rq[1].user_id)
                /\ ExtractedKey(k) \in DOMAIN StoredContext(rq[1].user_id)
                /\ StoredContext(rq[1].user_id)[ExtractedKey(k)] = rq[1].reply.metadata[k]

\* the responder and the enhancer of the call have succeeded
Enhanced(r) == rq[r].enhanced_response # JNull /\ rq[r].raised # "AttributeError"

\* C7: a failing store write while the turn is recorded never changes the
\* reply: once the responder and the enhancer succeeded, the call returns
\* the enhanced response.
C7_ReplyUnaffectedByStore ==
    (rq[1].pc = "done" /\ Enhanced(1)) => rq[1].reply = rq[1].enhanced_response

IsSystemError(reply) ==
    /\ reply # JNull
    /\ reply.agent_name = "System"
    /\ reply.confidence = 1
    /\ "fallback" \in DOMAIN reply.metadata
    /\ reply.metadata["fallback"] = JBool(TRUE)
    /\ "error" \in DOMAIN reply.metadata

\* C8: no exception leaves process_query: a call in which a stage raised
\* ends with the System response (confidence 0.1, fallback true, an error
\* entry), and every call that ended has a reply.
C8_NoExceptionEscapes ==
    \A r \in Slots :
        /\ rq[r].raised # "" => rq[r].pc = "done" /\ IsSystemError(rq[r].reply)
        /\ rq[r].pc = "done" => rq[r].reply # JNull

\* a call whose responder raised has ended
C8_Witness == rq[1].pc = "done" /\ rq[1].raised = "ResponderError"

LoadDegraded(r) == rq[r].load \in {"missing", "read_failed", "unparseable"}

CallerContext(r) == IF rq[r].context = NoContext THEN EmptyDict ELSE rq[r].context

\* C9 as stated: when no record exists, the read fails or the record does
\* not parse, the responder gets the caller-supplied context and an empty
\* conversation_history.
C9_EmptyContextOnLoadFailure ==
    \A r \in Slots :
        LoadDegraded(r) =>
            /\ rq[r].pc \notin {"idle", "get_context"}
            /\ \A k \in DOMAIN CallerContext(r) \ {"conversation_history"} :
                  rq[r].agent_context[k] = CallerContext(r)[k]
            /\ DOMAIN rq[r].agent_context =
                  DOMAIN CallerContext(r) \cup {"conversation_history"}
            /\ rq[r].agent_context["conversation_history"] = JList(<<>>)

\* C9 as amended: when no record exists, the read fails or the record does
\* not parse, the load gives an empty context and the call goes on to the
\* responder with exactly the caller-supplied context, plus an empty
\* conversation_history when the caller supplied none.
C9_CallerContextOnLoadFailure ==
    \A r \in Slots :
        LoadDegraded(r) =>
            /\ rq[r].pc \notin {"idle", "get_context"}
            /\ rq[r].raised \in {"", "ResponderError", "AttributeError", "StoreError"}
            /\ rq[r].agent_context =
                  IF "conversation_history" \in DOMAIN CallerContext(r)
                  THEN CallerContext(r)
                  ELSE DictSet(CallerContext(r), "conversation_history", JList(<<>>))

\* the responder has returned in a call whose stored record did not parse,
\* and in which the caller supplied a location
C9_Witness ==
    /\ rq[1].load = "unparseable"
    /\ rq[1].response # JNull
    /\ "location" \in DOMAIN CallerContext(1)

\* C10: saving the agent-memory snapshot of a user who has a 7-day context
\* record changes neither the value nor the TTL of that record or of the
\* user's rolling log (the three are kept under distinct keys).
C10_MemorySaveLeavesContext ==
    [][(/\ HasRecord("u1")
        /\ store[context_key("u1")].ttl = ContextTTL
        /\ \E c \in MemoryContexts : SaveMemoryContext("u1", c, TRUE)) =>
            /\ store'[context_key("u1")] = store[context_key("u1")]
            /\ store'[conversation_key("u1", "s1")] = store[conversation_key("u1", "s1")]
      ]_vars

----------------------------------------------------------------------------
(* Properties of the routing and of the enhancer, checked under SpecIntents *)

\* the intent the classifier gave to the call in slot r
PrimaryIntent(r) == rq[r].intent_response.metadata.primary_intent

\* the responder has been selected in slot r
Selected(r) == rq[r].pc \notin {"idle", "get_context"}

\* the routing the documentation states, written out
ExpectedAgent(primary_intent) ==
    CASE primary_intent = "irrigation" -> "irrigation_planning"
      [] primary_intent = "financial" -> "financial_planning"
      [] primary_intent = "policy" -> "policy_query"
      [] primary_intent \in {"crop_advisory", "soil_analysis", "weather",
                             "pest_disease", "market_intelligence",
                             "translation"} -> primary_intent
      [] OTHER -> "crop_advisory"

\* intents the static table does not have
UnmappedIntents == {"unknown", "llm_chat", "intent_classifier", ""}

\* C11: process_query invokes exactly the responder the static table maps
\* the primary intent to (irrigation to irrigation_planning, financial to
\* financial_planning, policy to policy_query, the others to the responder
\* of the same name); "general", an intent absent from the table and a
\* mapped name without registered responder go to crop_advisory.
C11_RoutesByTable ==
    /\ \A r \in Slots :
          /\ Selected(r) => rq[r].agent_name = ExpectedAgent(PrimaryIntent(r))
          /\ rq[r].response # JNull =>
                rq[r].response.agent_name = agents[ExpectedAgent(PrimaryIntent(r))]
    /\ \A i \in DOMAIN intent_to_agent \cup UnmappedIntents :
          /\ Route(i) = ExpectedAgent(i)
          /\ i \in UnmappedIntents \cup {"general"} => Route(i) = "crop_advisory"
    /\ \A i \in DOMAIN intent_to_agent :
          SelectAgent(DOMAIN agents \ {intent_to_agent[i]}, i) = "crop_advisory"

\* the responder of a policy query, which the table maps to another name,
\* has answered
C11_Witness ==
    /\ Succeeded(1)
    /\ PrimaryIntent(1) = "policy"
    /\ rq[1].response.agent_name = "Policy & Regulations"

\* the intents with a follow-up list, as documented
FollowUpIntents == {"crop_advisory", "weather", "market_intelligence"}

\* C12: a successful process_query returns requires_followup true iff the
\* primary intent is crop_advisory, weather or market_intelligence, whatever
\* requires_followup the responder returned; for every other intent (policy
\* and general among them) it is false.
C12_FollowupByIntent ==
    \A r \in Slots :
        Succeeded(r) =>
            /\ rq[r].reply.requires_followup = (PrimaryIntent(r) \in FollowUpIntents)
            /\ PrimaryIntent(r) \in {"policy", "general"} =>
                  ~rq[r].reply.requires_followup

\* a policy query has succeeded whose responder asked for a follow-up
C12_Witness ==
    /\ Succeeded(1)
    /\ PrimaryIntent(1) = "policy"
    /\ rq[1].response.requires_followup
    /\ ~rq[1].reply.requires_followup

\* the enhancer has built the enhanced response of the call in slot r
HasEnhanced(r) == rq[r].pc # "idle" /\ rq[r].enhanced_response # JNull

\* the fields the claim derives from the classifier
ClassifierFields(r) ==
    [intent_confidence |-> JNum(rq[r].intent_response.confidence),
     primary_intent |-> JStr(PrimaryIntent(r))]

\* the fields the enhancer sets: those of the classifier and the flag that
\* tells whether the context was non-empty
EnhancerFields(r) ==
    [intent_confidence |-> JNum(rq[r].intent_response.confidence),
     primary_intent |-> JStr(PrimaryIntent(r)),
     user_context_used |-> JBool(rq[r].agent_context # EmptyDict)]

\* the enhanced metadata is the responder's metadata with exactly the given
\* fields added, which win on collision
IsUnionWith(r, fields) ==
    LET enhanced == rq[r].enhanced_response.metadata
        own == rq[r].response.metadata
    IN  /\ DOMAIN enhanced = DOMAIN own \cup DOMAIN fields
        /\ \A k \in DOMAIN fields : enhanced[k] = fields[k]
        /\ \A k \in DOMAIN own \ DOMAIN fields : enhanced[k] = own[k]

\* the enhanced metadata has the given fields, and every other key of the
\* responder with the responder's value
KeepsOtherKeys(r, fields) ==
    LET enhanced == rq[r].enhanced_response.metadata
        own == rq[r].response.metadata
    IN  /\ \A k \in DOMAIN fields : k \in DOMAIN enhanced /\ enhanced[k] = fields[k]
        /\ \A k \in DOMAIN own \ DOMAIN fields :
              k \in DOMAIN enhanced /\ enhanced[k] = own[k]

\* C13 as stated: the enhanced metadata has intent_confidence and
\* primary_intent with the classifier's values, also on collision, and
\* every other key the responder returned keeps the responder's value.
C13_OnlyClassifierFieldsWin ==
    \A r \in Slots : HasEnhanced(r) => KeepsOtherKeys(r, ClassifierFields(r))

\* C13 as amended: the enhanced metadata is the union of the responder's
\* metadata with intent_confidence, primary_intent and user_context_used;
\* these three take the enhancer's values on collision, every other key of
\* the responder keeps the responder's value.
C13_EnhancerFieldsWin ==
    \A r \in Slots : HasEnhanced(r) => IsUnionWith(r, EnhancerFields(r))

\* a response has been enhanced whose responder used all three keys of the
\* enhancer, with other values, next to a key of its own
C13_Witness ==
    /\ HasEnhanced(1)
    /\ {"source", "primary_intent", "intent_confidence", "user_context_used"}
          \subseteq DOMAIN rq[1].response.metadata
    /\ \A k \in DOMAIN EnhancerFields(1) :
          rq[1].response.metadata[k] # EnhancerFields(1)[k]
    /\ rq[1].enhanced_response.metadata["source"] = rq[1].response.metadata["source"]

\* C18: whatever the query and the caller's context, the classifier never
\* yields primary_intent "translation" (no rule of its table belongs to it),
\* so process_query never invokes the translation responder; the routing
\* table selects that responder for the intent "translation" and for no
\* other intent.
C18_TranslationUnreachable ==
    /\ "translation" \notin Intents
    /\ \A r \in Slots :
          rq[r].pc # "idle" =>
              /\ PrimaryIntent(r) \in Intents \cup {"general"}
              /\ PrimaryIntent(r) # "translation"
              /\ \A k \in 1..Len(rq[r].intent_response.metadata.all_intents) :
                    rq[r].intent_response.metadata.all_intents[k].intent # "translation"
              /\ rq[r].agent_name # "translation"
              /\ rq[r].response # JNull =>
                    rq[r].response.agent_name # agents["translation"]
    /\ \A i \in DOMAIN intent_to_agent \cup UnmappedIntents :
          (Route(i) = "translation") <=> (i = "translation")

\* a query that asks for a translation, from a caller whose language is
\* Hindi, has been answered by the crop advisory responder
C18_Witness ==
    /\ Succeeded(1)
    /\ rq[1].query = <<"translate", "translation">>
    /\ rq[1].context = [language |-> JStr("hi")]
    /\ PrimaryIntent(1) = "general"
    /\ rq[1].reply.agent_name = agents["crop_advisory"]

----------------------------------------------------------------------------
(* Properties of the enhanced text, checked under SpecNote *)

\* what the enhancer appended to the responder's text
Appended(r) ==
    SubSeq(rq[r].enhanced_response.response,
           Len(rq[r].response.response) + 1,
           Len(rq[r].enhanced_response.response))

\* the location of the working context handed to the enhancer
WorkingLocation(r) == DictGet(rq[r].agent_context, "location")

\* the location is a non-empty string that does not occur, whatever the
\* case, inside the responder's text
LocationMissingInText(r) ==
    /\ WorkingLocation(r).t = "str"
    /\ WorkingLocation(r).s # ""
    /\ \A i \in 1..Len(rq[r].response.response) :
          LowerWord(WorkingLocation(r).s)
              \notin Substrings(LowerWord(rq[r].response.response[i]))

\* the appended text starts with the note for the location
StartsWithNote(r) ==
    /\ WorkingLocation(r).t = "str"
    /\ Len(Appended(r)) >= Len(LocationNote(WorkingLocation(r).s))
    /\ SubSeq(Appended(r), 1, Len(LocationNote(WorkingLocation(r).s)))
          = LocationNote(WorkingLocation(r).s)

\* C21: the enhancer appends the location note iff the working context has
\* a non-empty location that does not occur, compared case-insensitively,
\* as a substring of the responder's text; otherwise no note is in the
\* enhanced text.
C21_NoteIffLocationMissing ==
    \A r \in Slots :
        HasEnhanced(r) =>
            /\ StartsWithNote(r) <=> LocationMissingInText(r)
            /\ ~LocationMissingInText(r) =>
                  ~StrInWholeWord("Note:", rq[r].enhanced_response.response)

\* a response that has the location inside a longer word, in another case,
\* has been enhanced without the note
C21_Witness ==
    /\ HasEnhanced(1)
    /\ WorkingLocation(1) = JStr("punjab")
    /\ rq[1].response.response = <<"Punjabi", "wheat">>
    /\ ~StartsWithNote(1)

\* C23: enhancement changes only the text (by appending), the metadata and
\* requires_followup: citations, agent_name and confidence of the enhanced
\* response are those of the responder's response, and the responder's
\* text is a prefix of the enhanced text.
C23_EnhancementAppendsOnly ==
    \A r \in Slots :
        HasEnhanced(r) =>
            /\ rq[r].enhanced_response.citations = rq[r].response.citations
            /\ rq[r].enhanced_response.agent_name = rq[r].response.agent_name
            /\ rq[r].enhanced_response.confidence = rq[r].response.confidence
            /\ Len(rq[r].enhanced_response.response) >= Len(rq[r].response.response)
            /\ SubSeq(rq[r].enhanced_response.response, 1,
                      Len(rq[r].response.response)) = rq[r].response.response
            /\ DOMAIN rq[r].enhanced_response =
                  {"agent_name", "response", "confidence", "metadata",
                   "citations", "requires_followup"}

\* a response with citations has been enhanced with the location note and
\* the related questions behind its text
C23_Witness ==
    /\ HasEnhanced(1)
    /\ rq[1].response.citations # <<>>
    /\ rq[1].response.response = <<"grow", "wheat">>
    /\ StartsWithNote(1)
    /\ Len(Appended(1)) > Len(LocationNote("Punjab"))
    /\ rq[1].enhanced_response.metadata # rq[1].response.metadata

----------------------------------------------------------------------------
(* Properties of overlapping calls, checked under SpecRace and SpecUsers *)

\* the history the call in slot r loaded and handed to its responder
LoadedHistory(r) == rq[r].agent_context["conversation_history"].items

\* the turn the call in slot r appended to its working copy
OwnTurn(r) == Turn(rq[r].query, rq[r].enhanced_response)

\* both calls have returned the enhanced response, and they overlapped:
\* each loaded the context before the other saved its turn
BothSucceededOverlapping ==
    /\ Succeeded(1) /\ Succeeded(2)
    /\ rq[1].reply = rq[1].enhanced_response
    /\ rq[2].reply = rq[2].enhanced_response
    /\ rq[1].user_id = rq[2].user_id
    /\ rq[1].agent_context = rq[2].agent_context

\* C14: when two overlapping calls of one user have both returned their
\* enhanced response, the persisted context is the working copy of one of
\* them: its conversation_history has the turn of that call only, one entry
\* more than what was loaded, and the turn of the other call is lost
\* without an error to either caller.
C14_LostUpdate ==
    BothSucceededOverlapping =>
        /\ HasHistory("u1")
        /\ \E r \in Slots :
              /\ StoredContext("u1") = rq[r].user_context
              /\ StoredHistory("u1").items = Append(LoadedHistory(r), OwnTurn(r))
        /\ Len(StoredHistory("u1").items) = Len(LoadedHistory(1)) + 1
        /\ \A r \in Slots : rq[r].raised = "" /\ ~IsSystemError(rq[r].reply)

\* two overlapping calls with different turns have both succeeded on an
\* empty history, and the persisted history has one turn
C14_Witness ==
    /\ BothSucceededOverlapping
    /\ LoadedHistory(1) = <<>>
    /\ OwnTurn(1) # OwnTurn(2)
    /\ \E r \in Slots : StoredHistory("u1").items = <<OwnTurn(r)>>

\* the step is the final context write of the call in slot r
FinalWrite(r) == rq[r].pc = "final_save" /\ rq'[r].pc = "done"

\* the step is the context write inside _save_conversation of slot r
InnerWrite(r) == rq[r].pc = "save" /\ rq'[r].pc = "final_save"

\* C25: when overlapping calls of one user complete, the persisted record
\* is the working copy of the call whose final write ran last: every final
\* write stores the working copy of its call, no step but a context write
\* of a call in flight changes the record, and once two calls have both
\* succeeded the record has the turn of one of them as its newest entry,
\* at most 10 entries, and is not a record that misses both turns.
C25_LastWriterWins ==
    /\ [][\A r \in Slots :
            FinalWrite(r) =>
                /\ store'[context_key("u1")].kind = "string"
                /\ json_loads(store'[context_key("u1")].data) = rq[r].user_context
         ]_vars
    /\ [][(\A r \in Slots : ~FinalWrite(r) /\ ~InnerWrite(r)) =>
            store'[context_key("u1")] = store[context_key("u1")]
         ]_vars
    /\ [](Succeeded(1) /\ Succeeded(2) =>
            /\ HasHistory("u1")
            /\ \E r \in Slots :
                  /\ StoredContext("u1") = rq[r].user_context
                  /\ StoredHistory("u1").items # <<>>
                  /\ StoredHistory("u1").items[Len(StoredHistory("u1").items)]
                        = OwnTurn(r)
            /\ Len(StoredHistory("u1").items) <= HistoryLimit)

\* two calls that loaded the same record have both succeeded, and the
\* record is the working copy of the second caller, whose turn differs
\* from the first caller's
C25_Witness ==
    /\ BothSucceededOverlapping
    /\ OwnTurn(1) # OwnTurn(2)
    /\ StoredContext("u1") = rq[2].user_context
    /\ StoredContext("u1") # rq[1].user_context

\* the call in slot r has pushed its turn on the rolling log
Pushed(r) ==
    rq[r].pc \in {"ltrim", "expire", "reload", "save", "final_save", "done"}

\* the turns of caller r pushed so far: those of its returned calls and the
\* one of its call in flight
PushesOf(r) ==
    Len(SelectSeq(turns, LAMBDA t : t.user = SlotQuery(r)))
        + (IF Pushed(r) THEN 1 ELSE 0)

\* the entries of the rolling log that come from caller r
LogEntriesOf(r) ==
    Len(SelectSeq(store[conversation_key("u1", "s1")].items,
                  LAMBDA e : e.value.query = SlotQuery(r)))

\* no call is between its push and its trim
NoTrimPending == \A r \in Slots : rq[r].pc # "ltrim"

\* C26: the rolling log loses no update under concurrency: whatever the
\* interleaving of the overlapping calls of one user and session, once the
\* trims of the pushes made so far have run the log holds min(n, 10)
\* entries for the n turns pushed, and while n <= 10 it holds the turn of
\* every call, those of both callers included.
C26_LogLosesNoUpdate ==
    (PushesOf(1) + PushesOf(2) > 0 /\ NoTrimPending) =>
        LET n == PushesOf(1) + PushesOf(2)
            log == store[conversation_key("u1", "s1")]
        IN  /\ log.kind = "list"
            /\ Len(log.items) = (IF n <= HistoryLimit THEN n ELSE HistoryLimit)
            /\ n <= HistoryLimit =>
                  \A r \in Slots : LogEntriesOf(r) = PushesOf(r)

\* two overlapping calls have both succeeded on a log that held eight
\* entries: the log holds ten, the turns of both calls among them, while
\* the context record has lost one of the two
C26_Witness ==
    /\ BothSucceededOverlapping
    /\ Len(turns) = HistoryLimit - 2
    /\ Len(store[conversation_key("u1", "s1")].items) = HistoryLimit
    /\ LogEntriesOf(2) = 1
    /\ LogEntriesOf(1) = HistoryLimit - 1
    /\ Len(StoredHistory("u1").items) = HistoryLimit - 1

\* the context record and the rolling logs of a user
KeysOf(user_id) ==
    {context_key(user_id)} \cup {conversation_key(user_id, s) : s \in AllSessionIds}

\* the turns of the calls of slot r that have returned, and of the one that
\* has ended but not yet returned
TurnsOf(r) ==
    SelectSeq(turns, LAMBDA t : t.user = SlotQuery(r))
        \o (IF rq[r].pc = "done" THEN <<OwnTurn(r)>> ELSE <<>>)

\* the rolling log of a user, oldest entry first, as turns
LogTurns(user_id) ==
    LET items == store[conversation_key(user_id, "s1")].items
    IN  [i \in 1..Len(items) |->
            [user |-> items[Len(items) + 1 - i].value.query,
             assistant |-> items[Len(items) + 1 - i].value.response]]

\* the persisted context and log of the user of slot r are what the calls
\* of that user alone produce: the last turns of these calls, nothing else
OwnCallsOnly(r) ==
    (rq[r].pc \in {"idle", "done"} /\ TurnsOf(r) # <<>>) =>
        /\ HasRecord(SlotUser(r))
        /\ StoredContext(SlotUser(r)) =
              [conversation_history |-> JList(LastN(TurnsOf(r), HistoryLimit))]
        /\ store[conversation_key(SlotUser(r), "s1")].kind = "list"
        /\ LogTurns(SlotUser(r)) = LastN(TurnsOf(r), HistoryLimit)

\* a step of the call in slot r leaves the records of the other users as
\* they are
OtherUsersUntouched(r) ==
    rq'[r] # rq[r] =>
        \A u \in AllUserIds \ {SlotUser(r)} : \A k \in KeysOf(u) : store'[k] = store[k]

\* C15: under any interleaving of the calls of two users, a call of one
\* user never writes the other user's context record or rolling log, and
\* the persisted context and log of each user are those the calls of that
\* user alone produce (no turn of the other user is read into them).
C15_UsersIsolated ==
    /\ [](\A r \in Slots : OwnCallsOnly(r))
    /\ [][\A r \in Slots : OtherUsersUntouched(r)]_vars

\* the calls of the two users are in flight together, each started before
\* the other recorded its turn, and both have succeeded
C15_Witness ==
    /\ Succeeded(1) /\ Succeeded(2)
    /\ rq[1].user_id = "u1" /\ rq[2].user_id = "u2"
    /\ \A u \in AllUserIds :
          /\ store[conversation_key(u, "s1")].kind = "list"
          /\ store[conversation_key(u, "s1")].items[1].value.timestamp = 2
    /\ StoredHistory("u1").items = <<OwnTurn(1)>>
    /\ StoredHistory("u2").items = <<OwnTurn(2)>>

----------------------------------------------------------------------------
(* Properties of the context record over the calls of one user *)

\* 7 days in seconds
SevenDays == 7 * 24 * 60 * 60

\* the step ends the call in slot r
Ends(r) == rq[r].pc \notin {"idle", "done"} /\ rq'[r].pc = "done"

\* after the step the context record of the user of slot r is one saved
\* with a TTL of 7 days
SavedForSevenDays(r) ==
    /\ store'[context_key(rq[r].user_id)].kind = "string"
    /\ store'[context_key(rq[r].user_id)].ttl = SevenDays

\* C16 as stated: the end of every call of process_query, failed or not,
\* leaves the user's context record saved again with a TTL of 7 days.
C16_SavedAfterEveryQuery ==
    [][\A r \in Slots : Ends(r) => SavedForSevenDays(r)]_vars

\* C16 as amended: the step that ends a call with the enhanced response is
\* the save of the working context under the user's key with a TTL of 7
\* days, whatever the TTL of the record was; a call that ends in the failed
\* state does not save the record in its last step.
C16_SavedAfterSuccess ==
    [][\A r \in Slots :
          Ends(r) =>
              IF rq'[r].raised = ""
              THEN /\ SavedForSevenDays(r)
                   /\ store'[context_key(rq[r].user_id)].data =
                          json_dumps(rq[r].user_context)
                   /\ rq'[r].reply = rq[r].enhanced_response
              ELSE store'[context_key(rq[r].user_id)] =
                      store[context_key(rq[r].user_id)]
      ]_vars

\* a call has succeeded that had loaded a memory snapshot, which is kept
\* for one day: the record is now kept for 7 days
C16_Witness ==
    /\ Succeeded(1)
    /\ rq[1].load = "loaded"
    /\ "soil_type" \in DOMAIN rq[1].agent_context
    /\ store[context_key("u1")].ttl = SevenDays
    /\ StoredContext("u1") = rq[1].user_context

----------------------------------------------------------------------------
(* Properties of the rolling log *)

\* the rolling log of u1 in session s1
Log == store[conversation_key("u1", "s1")]

\* C22: after any sequence of recordings the rolling log holds at most 10
\* entries, which are the most recent turns, newest first, and its TTL is
\* the 24 hours the last recording set; the conversation_history of the
\* context is bounded on its own.
C22_LogBoundedNewestFirst ==
    (rq[1].pc = "idle" /\ calls > 0) =>
        /\ Log.kind = "list"
        /\ Len(Log.items) <= HistoryLimit
        /\ LogTurns("u1") = LastN(turns, HistoryLimit)
        /\ Log.ttl = 24 * 60 * 60
        /\ Len(StoredHistory("u1").items) <= HistoryLimit

----------------------------------------------------------------------------
(* Properties of the stages of process_query *)

\* the order of the stages: a call is entered with the classification
\* (idle to get_context), loads the context and selects the responder (to
\* agent), invokes the responder and enhances its response (to lpush),
\* records the turn (lpush .. final_save) and returns (done, idle); a stage
\* that raises ends the call, a failed store call of _save_conversation
\* skips the rest of it
StageOrder ==
    {<<"idle", "get_context">>, <<"get_context", "agent">>,
     <<"get_context", "done">>,
     <<"agent", "lpush">>, <<"agent", "done">>,
     <<"lpush", "ltrim">>, <<"lpush", "final_save">>,
     <<"ltrim", "expire">>, <<"ltrim", "final_save">>,
     <<"expire", "reload">>, <<"expire", "final_save">>,
     <<"reload", "save">>, <<"save", "final_save">>,
     <<"final_save", "done">>, <<"done", "idle">>}

\* what the call in slot r has computed, stage by stage
StageResults(r) ==
    <<rq[r].intent_response # JNull, rq[r].agent_name # "",
      rq[r].response # JNull, rq[r].enhanced_response # JNull,
      rq[r].reply # JNull>>

\* the results that exist at each position of the call
ResultsAt(r) ==
    CASE rq[r].pc = "idle" -> {<<FALSE, FALSE, FALSE, FALSE, FALSE>>}
      [] rq[r].pc = "get_context" -> {<<TRUE, FALSE, FALSE, FALSE, FALSE>>}
      [] rq[r].pc = "agent" -> {<<TRUE, TRUE, FALSE, FALSE, FALSE>>}
      [] rq[r].pc = "done" ->
            IF rq[r].raised = ""
            THEN {<<TRUE, TRUE, TRUE, TRUE, TRUE>>}
            ELSE {<<TRUE, FALSE, FALSE, FALSE, TRUE>>,
                  <<TRUE, TRUE, FALSE, FALSE, TRUE>>,
                  <<TRUE, TRUE, TRUE, FALSE, TRUE>>,
                  <<TRUE, TRUE, TRUE, TRUE, TRUE>>}
      [] OTHER -> {<<TRUE, TRUE, TRUE, TRUE, FALSE>>}

\* C19: every call passes through classify, load context, select responder,
\* invoke responder, enhance, record, return in this order, a stage starting
\* only when the one before it has given its result; no step goes back, so
\* a call that returns the enhanced response has run each stage once, and
\* the responder's response is set by the one step that invokes it.
C19_StagesInOrder ==
    /\ [](\A r \in Slots : StageResults(r) \in ResultsAt(r))
    /\ [](\A r \in Slots : Succeeded(r) => rq[r].reply = rq[r].enhanced_response)
    /\ [][\A r \in Slots :
            /\ rq'[r].pc # rq[r].pc => <<rq[r].pc, rq'[r].pc>> \in StageOrder
            /\ rq'[r].pc = rq[r].pc => rq'[r] = rq[r]
            /\ (rq'[r].response # rq[r].response /\ rq'[r].pc # "idle") =>
                  rq[r].pc = "agent" /\ rq[r].response = JNull
         ]_vars

\* a second call has passed all stages and has the enhanced response as
\* its reply
C19_Witness ==
    /\ calls = 2
    /\ Succeeded(1)
    /\ rq[1].load = "loaded"
    /\ StageResults(1) = <<TRUE, TRUE, TRUE, TRUE, TRUE>>
    /\ rq[1].reply = rq[1].enhanced_response

\* the call in slot r is in a stage before the enhancer: it is being
\* classified, loads its context, selects or awaits its responder
BeforeEnhance(r) == rq[r].pc \in {"idle", "get_context", "agent"}

\* the step is one of the call in slot r
StepOf(r) == rq'[r] # rq[r]

\* C20: a call in which a stage before the enhancer raises ends in the
\* failed state with the System response, without enhanced response and
\* without entering the record stage; no step of a call up to and including
\* that failure writes the context record or the rolling log of the user or
\* changes their TTLs.
C20_FailureWritesNothing ==
    /\ [](\A r \in Slots :
            rq[r].raised = "ResponderError" =>
                /\ rq[r].pc = "done"
                /\ rq[r].response = JNull /\ rq[r].enhanced_response = JNull
                /\ IsSystemError(rq[r].reply))
    /\ [][\A r \in Slots :
            /\ (rq'[r].raised = "ResponderError" /\ rq[r].raised = "") =>
                  rq[r].pc = "agent"
            /\ (BeforeEnhance(r) /\ StepOf(r)) => store' = store
         ]_vars

\* the responder has raised in a second call, which had loaded the record
\* the first call saved: the record still has that history and no turn of
\* the failed call
C20_Witness ==
    /\ calls = 2
    /\ rq[1].pc = "done" /\ rq[1].raised = "ResponderError"
    /\ rq[1].load = "loaded"
    /\ HasHistory("u1")
    /\ Len(StoredHistory("u1").items) = 1
    /\ StoredHistory("u1") = rq[1].agent_context["conversation_history"]
    /\ store[conversation_key("u1", "s1")].kind = "list"
    /\ Len(store[conversation_key("u1", "s1")].items) = 1

----------------------------------------------------------------------------
(* Properties of the context across consecutive calls, checked under *)
(* SpecFields                                                        *)

\* the keys of a context whose value is a string, a number or a boolean
ScalarKeys(context) ==
    {k \in DOMAIN context : context[k].t \in {"str", "num", "bool"}}

\* the step loads the context of the call in slot r and hands it to the
\* responder
Loads(r) == rq[r].pc = "get_context" /\ rq'[r].pc = "agent"

\* C17: across consecutive successful queries of one user, the record a
\* successful query leaves is the context it saved at its end and stays as
\* it is until the next query loads it, and every scalar field of it is in
\* the context handed to the responder of the next query with the same
\* value, unless the caller's context of that query supplies the key.
C17_ScalarFieldsCarriedOver ==
    /\ [](Succeeded(1) => /\ HasRecord("u1")
                          /\ StoredContext("u1") = rq[1].user_context)
    /\ [][rq[1].pc \in {"done", "idle"} => store' = store]_vars
    /\ [][(Loads(1) /\ HasRecord("u1")) =>
            \A k \in ScalarKeys(StoredContext("u1")) \ DOMAIN CallerContext(1) :
                /\ k \in DOMAIN rq'[1].agent_context
                /\ rq'[1].agent_context[k] = StoredContext("u1")[k]
         ]_vars

\* the responder of a second query is handed the location and the farm size
\* the first query saved, while the caller of the second supplied another
\* field only
C17_Witness ==
    /\ calls = 2
    /\ rq[1].pc = "agent"
    /\ rq[1].context = [language |-> JStr("hi")]
    /\ rq[1].agent_context =
          [location |-> JStr("Kerala"), farm_size |-> JNum(2),
           language |-> JStr("hi"),
           conversation_history |-> StoredHistory("u1")]

\* the stored context overridden by the caller's context argument, key by
\* key, with an empty history when neither has one
Overridden(stored, caller) ==
    LET keys == DOMAIN stored \cup DOMAIN caller \cup {"conversation_history"}
    IN  [k \in keys |->
            IF k \in DOMAIN caller THEN caller[k]
            ELSE IF k \in DOMAIN stored THEN stored[k]
            ELSE JList(<<>>)]

\* the working copy of the call in slot r at its end: what it loaded and
\* merged, with its turn appended and the history cut
WorkingCopyAtEnd(r) ==
    [k \in DOMAIN rq[r].agent_context |->
        IF k = "conversation_history"
        THEN JList(LastN(Append(LoadedHistory(r), OwnTurn(r)), HistoryLimit))
        ELSE rq[r].agent_context[k]]

----------------------------------------------------------------------------
(* Properties of the caller's context, checked under SpecOverride *)

\* the record a load of u1 returns now
StoredOrEmpty == IF HasRecord("u1") THEN StoredContext("u1") ELSE EmptyDict

\* C27: in the working context handed to the responder every key of the
\* caller's context has the caller's value, a null included, and every
\* other stored key keeps its stored value; the record persisted by the
\* call has the caller's values too, its history being the caller's history
\* (when supplied) with the turn appended.
C27_CallerValuesWin ==
    /\ [][Loads(1) =>
            /\ \A k \in DOMAIN CallerContext(1) :
                  rq'[1].agent_context[k] = CallerContext(1)[k]
            /\ \A k \in DOMAIN StoredOrEmpty \ DOMAIN CallerContext(1) :
                  rq'[1].agent_context[k] = StoredOrEmpty[k]
         ]_vars
    /\ [](Succeeded(1) =>
            /\ \A k \in DOMAIN CallerContext(1) \ {"conversation_history"} :
                  StoredContext("u1")[k] = CallerContext(1)[k]
            /\ "conversation_history" \in DOMAIN CallerContext(1) =>
                  StoredHistory("u1").items =
                      Append(CallerContext(1)["conversation_history"].items,
                             OwnTurn(1)))

\* a second call with a null location has succeeded on a record that had a
\* location and a language: the record has the null location and the
\* language
C27_Witness ==
    /\ calls = 2
    /\ Succeeded(1)
    /\ rq[1].load = "loaded"
    /\ rq[1].context = [location |-> JNull]
    /\ StoredContext("u1")["location"] = JNull
    /\ "language" \in DOMAIN StoredContext("u1")
    /\ StoredContext("u1")["language"] = JStr("hi")
    /\ rq[1].agent_context["location"] = JNull

----------------------------------------------------------------------------
(* Properties of the load of a record that is no object, checked under *)
(* SpecNonObject                                                       *)

\* C28: whatever the stored record, a list, a number, a string or null
\* included, the loaded context is a mapping and the call goes on to the
\* responder: it does not end with the System error response.
C28_NonObjectRecordIsTolerated ==
    \A r \in Slots :
        /\ rq[r].pc \notin {"idle", "get_context"} =>
              /\ rq[r].agent_name # ""
              /\ IsMapping(rq[r].agent_context)
        /\ rq[r].pc = "done" =>
              /\ rq[r].response # JNull
              /\ ~IsSystemError(rq[r].reply)

----------------------------------------------------------------------------
(* Properties of the metadata field user_context_used, checked under *)
(* SpecNote                                                          *)

\* the user had a stored context when the call loaded it
HadStoredContext(r) == rq[r].load = "loaded"

\* the caller supplied a context with the call
SuppliedContext(r) == CallerContext(r) # EmptyDict

\* C29: user_context_used of an enhanced response is true iff the user
\* had a stored context or the caller supplied one; for a first-time user
\* without a caller context it is false.
C29_ContextUsedIffContextKnown ==
    \A r \in Slots :
        HasEnhanced(r) =>
            rq[r].enhanced_response.metadata.user_context_used
                = JBool(HadStoredContext(r) \/ SuppliedContext(r))

----------------------------------------------------------------------------
(* Properties of the classifier's confidence, checked under *)
(* SpecClassifier                                            *)

RuleWeights ==
    {intent_patterns[i][k].weight : i \in Intents, k \in 1..3}

\* the smallest weight of any rule, in tenths
MinRuleWeight == CHOOSE w \in RuleWeights : \A v \in RuleWeights : w <= v

\* C30: the confidence is 0.5 iff the primary intent is "general"; every
\* other primary intent has a confidence from the smallest rule weight
\* (0.6) to 1.0, so "general" is strictly less confident than any match.
C30_GeneralIsLeastConfident ==
    /\ MinRuleWeight = 6
    /\ \A i \in Intents : Len(intent_patterns[i]) = 3
    /\ \A n \in 1..Len(cl.results) :
          LET primary_intent == cl.results[n].metadata.primary_intent
              confidence == cl.results[n].confidence
          IN  /\ (confidence = 5) <=> (primary_intent = "general")
              /\ primary_intent = "general" => confidence < MinRuleWeight
              /\ primary_intent # "general" =>
                    /\ confidence >= MinRuleWeight
                    /\ confidence <= 10

\* a query that matches only a rule of the smallest weight has been
\* classified with that weight as its confidence
C30_Witness ==
    /\ Len(cl.results) > 0
    /\ cl.results[1].metadata.primary_intent # "general"
    /\ cl.results[1].confidence = MinRuleWeight

====
